---- MODULE Spec2Model ----
(***************************************************************************)
(* Model of engine_pretrain.py: train_one_epoch, the single-epoch          *)
(* pretraining loop (frame-to-grid rearrangement, gradient accumulation,   *)
(* learning-rate boundary, numeric-health check, metric and scalar         *)
(* logging).  External collaborators (model, optimizer, scaler, metric     *)
(* logger, writer) are observed through the sequence of calls made to      *)
(* them and through the small amount of state their contracts define.      *)
(***************************************************************************)
EXTENDS Integers, Sequences, FiniteSets, TLC

VARIABLES
    pc,             \* "call" | "loop" | "returned" | "exited" | "raised"
    err,            \* "" | "SystemExit(1)" | "RuntimeError" | "AttributeError"
    epoch,          \* parameter epoch
    n,              \* len(data_loader)
    accum_iter,     \* args.accum_iter
    log_writer,     \* TRUE iff log_writer is not None
    data_iter_step, \* loop counter of enumerate(...)
    lr,             \* optimizer.param_groups[0]["lr"]
    grad,           \* gradient contributions accumulated in the .grad buffers
    updates,        \* one entry per optimizer update: the contributions it consumed
    dropped,        \* contributions cleared by zero_grad without having been applied
    meters,         \* metric_logger: values recorded by update(loss=..), update(lr=..)
    calls,          \* history of calls made to the external collaborators
    batch,          \* the tensor taken from the data loader at the current step
    samples,        \* the tensor after the rearrangement (input of the model)
    ncalls,         \* number of invocations of train_one_epoch so far
    workers         \* the data-parallel worker processes, each running the loop

vars == <<pc, err, epoch, n, accum_iter, log_writer, data_iter_step, lr, grad,
          updates, dropped, meters, calls, batch, samples, ncalls, workers>>

----------------------------------------------------------------------------
(* Bounds of the model *)

MaxN == 4          \* largest len(data_loader)
MaxAccum == 3      \* largest accum_iter
MaxEpoch == 1      \* largest epoch index of the first invocation
MaxCalls == 2      \* consecutive invocations (epoch, epoch+1, ...)
MaxBatch == 2      \* largest batch_size of a tensor
MaxSide == 2       \* largest frame height / width of a tensor
MaxWorkers == 2    \* largest number of worker processes

(* Program constants *)

ImageFreq == 250   \* reconstruction image every 250 steps
GridChannels == 3  \* channel count written into both reshape calls
GridSide == 4      \* the 4x4 grid written into both reshape calls

----------------------------------------------------------------------------
(* Tensors: a shape and the elements in row-major (logical) order *)

RECURSIVE Prod(_)
Prod(s) == IF s = <<>> THEN 1 ELSE Head(s) * Prod(Tail(s))

Stride(shape, i) == Prod(SubSeq(shape, i + 1, Len(shape)))

Unravel(j, shape) == [i \in 1..Len(shape) |-> (j \div Stride(shape, i)) % shape[i]]

RECURSIVE RavelFrom(_, _, _)
RavelFrom(idx, shape, i) ==
    IF i > Len(shape) THEN 0
    ELSE idx[i] * Stride(shape, i) + RavelFrom(idx, shape, i + 1)

Ravel(idx, shape) == RavelFrom(idx, shape, 1)

At(t, idx) == t.data[Ravel(idx, t.shape) + 1]

\* torch.Tensor.permute(*dims), dims 0-based as in the source
Permute(t, dims) ==
    LET ns == [i \in 1..Len(dims) |-> t.shape[dims[i] + 1]]
    IN  [shape |-> ns,
         data  |-> [j \in 1..Len(t.data) |->
                      LET m   == Unravel(j - 1, ns)
                          src == [d \in 1..Len(dims) |->
                                     m[CHOOSE i \in 1..Len(dims) : dims[i] + 1 = d]]
                      IN  t.data[Ravel(src, t.shape) + 1]]]

\* torch.Tensor.reshape(*shape) succeeds iff the element counts agree
CanReshape(t, shape) == Prod(shape) = Len(t.data)

Reshape(t, shape) == [shape |-> shape, data |-> t.data]

NoTensor == [shape |-> <<>>, data |-> <<>>]

\* a tensor whose element at every position is the identity of that position
Iota(shape) == [shape |-> shape, data |-> [j \in 1..Prod(shape) |-> j - 1]]

\* the rearrangement without the permute that interleaves grid rows and pixel rows
GridTransformNoInterleave(t) ==
    LET img_size   == t.shape[5]
        batch_size == t.shape[1]
        s1 == Permute(t, <<0, 2, 1, 3, 4>>)
        shape2 == <<batch_size, GridChannels, GridSide, GridSide, img_size, img_size>>
        shape4 == <<batch_size, GridChannels, GridSide * img_size, GridSide * img_size>>
    IN  IF ~CanReshape(s1, shape2)
        THEN [raised |-> TRUE, value |-> NoTensor]
        ELSE [raised |-> FALSE, value |-> Reshape(Reshape(s1, shape2), shape4)]

\* lines 51-63: the frame-to-grid rearrangement of one batch
GridTransform(t) ==
    LET img_size   == t.shape[5]
        batch_size == t.shape[1]
        s1 == Permute(t, <<0, 2, 1, 3, 4>>)
        shape2 == <<batch_size, GridChannels, GridSide, GridSide, img_size, img_size>>
        shape4 == <<batch_size, GridChannels, GridSide * img_size, GridSide * img_size>>
    IN  IF ~CanReshape(s1, shape2)
        THEN [raised |-> TRUE, value |-> NoTensor]
        ELSE LET s3 == Permute(Reshape(s1, shape2), <<0, 1, 2, 4, 3, 5>>)
             IN  IF ~CanReshape(s3, shape4)
                 THEN [raised |-> TRUE, value |-> NoTensor]
                 ELSE [raised |-> FALSE, value |-> Reshape(s3, shape4)]

----------------------------------------------------------------------------
(* Scalars *)

\* a loss value: finite rational num/den, or a non-finite float
Fin(v) == [kind |-> "fin", num |-> v, den |-> 1]
NaN == [kind |-> "nan", num |-> 0, den |-> 1]
Inf == [kind |-> "inf", num |-> 0, den |-> 1]
NoLoss == [kind |-> "none", num |-> 0, den |-> 1]

\* the losses the model may return at a step
Losses == {Fin(3), NaN, Inf}

\* the batch shapes the data loader may yield in the training loop:
\* 16 RGB frames, 8 RGB frames, 48 single-channel frames
MainShapes == {<<1, 16, 3, 1, 1>>, <<1, 8, 3, 1, 1>>, <<1, 48, 1, 1, 1>>}

\* line 79: math.isfinite(loss_value)
IsFinite(l) == l.kind = "fin"

\* the loss handed to backward without the division
NormLossMissing(l, k) == l

\* line 83: loss /= accum_iter
NormLoss(l, k) == [l EXCEPT !.den = l.den * k]

\* the learning rate recomputed on every step
LrBoundaryEveryStep(step, k) == TRUE

\* line 45: the learning rate is recomputed on this step
LrBoundary(step, k) == step % k = 0

\* line 46: data_iter_step / len(data_loader) + epoch, as the rational <<num, den>>
FractionalEpoch(step, len, ep) == <<step + ep * len, len>>

\* lr_sched.adjust_learning_rate: the schedule's value at a fractional epoch,
\* kept symbolic as the fractional epoch it was evaluated at
AdjustLearningRate(frac) == frac

\* the optimizer's learning rate before any schedule call
InitialLr == <<0, 0>>

\* line 68: a reconstruction image is produced on this step
ImageStep(step) == step % ImageFreq = 0

\* the update flag raised on the first step of a window instead of the last
UpdateGradAtWindowStart(step, k) == step % k = 0

\* line 85: update_grad=(data_iter_step + 1) % accum_iter == 0
UpdateGrad(step, k) == (step + 1) % k = 0

\* line 86: if (data_iter_step + 1) % accum_iter == 0: optimizer.zero_grad()
ZeroGradStep(step, k) == (step + 1) % k = 0

\* scalars logged on every step once a writer is attached
LogStepEveryStep(writer, step, k) == writer

\* line 97: log_writer is not None and (data_iter_step + 1) % accum_iter == 0
LogStep(writer, step, k) == writer /\ (step + 1) % k = 0

\* the x-axis value rounded to nearest instead of truncated
Epoch1000xRounded(step, len, ep) == ((step + ep * len) * 1000 * 2 + len) \div (2 * len)

\* the x-axis value without the epoch offset
Epoch1000xNoEpoch(step, len, ep) == (step * 1000) \div len

\* line 101: int((data_iter_step / len(data_loader) + epoch) * 1000)
Epoch1000x(step, len, ep) == ((step + ep * len) * 1000) \div len

----------------------------------------------------------------------------
(* Contracts of the optimizer and the gradient scaler *)

\* loss_scaler(...): backward adds this step's contribution to the .grad buffers
Backward(g, c) == g \cup {c}

\* loss_scaler(..., update_grad=True): the optimizer consumes the .grad buffers
OptimizerStep(u, g) == Append(u, g)

\* contributions consumed by some optimizer update
Applied(u) == UNION {u[i] : i \in DOMAIN u}

\* optimizer.zero_grad(): contributions cleared before any update used them
Discarded(u, g) == g \ Applied(u)

----------------------------------------------------------------------------
(* Calls to external collaborators *)

Call(op, e, s) ==
    [op |-> op, epoch |-> e, step |-> s, tag |-> "", loss |-> NoLoss,
     flag |-> FALSE, x |-> 0, val |-> <<0, 0>>]

CallsOf(op) == {i \in DOMAIN calls : calls[i].op = op}

----------------------------------------------------------------------------
(* Actions *)

Init ==
    /\ pc = "call"
    /\ err = ""
    /\ epoch \in 0..MaxEpoch
    /\ n \in 1..MaxN
    /\ accum_iter \in 1..MaxAccum
    /\ log_writer \in BOOLEAN
    /\ data_iter_step = 0
    /\ lr = InitialLr
    /\ grad = {}
    /\ updates = <<>>
    /\ dropped = {}
    /\ meters = [loss |-> <<>>, lr |-> <<>>]
    /\ calls = <<>>
    /\ batch = NoTensor
    /\ samples = NoTensor
    /\ ncalls = 0
    /\ workers = <<>>

\* lines 29-40: entry of train_one_epoch up to the loop
Enter ==
    /\ pc = "call"
    /\ pc' = "loop"
    /\ data_iter_step' = 0
    /\ meters' = [loss |-> <<>>, lr |-> <<>>]
    /\ calls' = calls \o << Call("train", epoch, -1), Call("zero_grad", epoch, -1) >>
    /\ dropped' = dropped \cup Discarded(updates, grad)
    /\ grad' = {}
    /\ ncalls' = ncalls + 1
    /\ UNCHANGED <<err, epoch, n, accum_iter, log_writer, lr, updates, batch, samples,
                   workers>>

\* lines 42-103: one iteration of the loop body
Step ==
    /\ pc = "loop"
    /\ data_iter_step < n
    /\ \E shape \in MainShapes, out \in Losses :
        LET step == data_iter_step
            k    == accum_iter
            \* lines 45-46
            lr1  == IF LrBoundary(step, k)
                    THEN AdjustLearningRate(FractionalEpoch(step, n, epoch))
                    ELSE lr
            c_lr == IF LrBoundary(step, k)
                    THEN << [Call("adjust_learning_rate", epoch, step)
                               EXCEPT !.val = FractionalEpoch(step, n, epoch)] >>
                    ELSE << >>
            \* lines 49-63
            b    == Iota(shape)
            g    == GridTransform(b)
            \* line 66
            c_model == << [Call("model", epoch, step) EXCEPT !.loss = out] >>
            \* lines 68-75
            c_unpatch == IF ImageStep(step)
                         THEN << Call("unpatchify", epoch, step) >> ELSE << >>
            c_image == IF ImageStep(step)
                       THEN << [Call("add_image", epoch, step) EXCEPT !.x = epoch] >>
                       ELSE << >>
            \* line 77
            loss_value == out
            \* lines 83-87
            upd  == UpdateGrad(step, k)
            c_scaler == << [Call("loss_scaler", epoch, step)
                              EXCEPT !.loss = NormLoss(out, k), !.flag = upd] >>
            g1   == Backward(grad, <<epoch, step>>)
            u1   == IF upd THEN OptimizerStep(updates, g1) ELSE updates
            zero == ZeroGradStep(step, k)
            c_zero == IF zero THEN << Call("zero_grad", epoch, step) >> ELSE << >>
            \* lines 89-94
            c_sync == << Call("cuda_synchronize", epoch, step) >>
            c_metric == << [Call("update", epoch, step)
                              EXCEPT !.tag = "loss", !.loss = loss_value],
                           [Call("update", epoch, step)
                              EXCEPT !.tag = "lr", !.val = lr1] >>
            \* line 96
            loss_value_reduce == loss_value
            c_reduce == << [Call("all_reduce_mean", epoch, step)
                              EXCEPT !.loss = loss_value] >>
            \* lines 97-103
            epoch_1000x == Epoch1000x(step, n, epoch)
            c_scalar == IF LogStep(log_writer, step, k)
                        THEN << [Call("add_scalar", epoch, step)
                                   EXCEPT !.tag = "train_loss",
                                          !.loss = loss_value_reduce,
                                          !.x = epoch_1000x],
                                [Call("add_scalar", epoch, step)
                                   EXCEPT !.tag = "lr", !.val = lr1,
                                          !.x = epoch_1000x] >>
                        ELSE << >>
        IN  /\ lr' = lr1
            /\ batch' = b
            /\ samples' = g.value
            /\ IF g.raised
               THEN \* reshape raises; the exception propagates
                    /\ pc' = "raised"
                    /\ err' = "RuntimeError"
                    /\ calls' = calls \o c_lr
                    /\ UNCHANGED <<data_iter_step, grad, updates, dropped, meters>>
               ELSE IF ImageStep(step) /\ ~log_writer
               THEN \* line 72: log_writer.add_image on None
                    /\ pc' = "raised"
                    /\ err' = "AttributeError"
                    /\ calls' = calls \o c_lr \o c_model \o c_unpatch
                    /\ UNCHANGED <<data_iter_step, grad, updates, dropped, meters>>
               ELSE IF ~IsFinite(loss_value)
               THEN \* lines 79-81: sys.exit(1)
                    /\ pc' = "exited"
                    /\ err' = "SystemExit(1)"
                    /\ calls' = calls \o c_lr \o c_model \o c_unpatch \o c_image
                    /\ UNCHANGED <<data_iter_step, grad, updates, dropped, meters>>
               ELSE /\ pc' = "loop"
                    /\ err' = err
                    /\ calls' = calls \o c_lr \o c_model \o c_unpatch \o c_image
                                  \o c_scaler \o c_zero \o c_sync \o c_metric
                                  \o c_reduce \o c_scalar
                    /\ updates' = u1
                    /\ dropped' = IF zero THEN dropped \cup Discarded(u1, g1)
                                  ELSE dropped
                    /\ grad' = IF zero THEN {} ELSE g1
                    /\ meters' = [loss |-> Append(meters.loss, loss_value),
                                  lr   |-> Append(meters.lr, lr1)]
                    /\ data_iter_step' = step + 1
    /\ UNCHANGED <<epoch, n, accum_iter, log_writer, ncalls, workers>>

\* lines 106-109: the loop is exhausted; synchronize and return the averages
Finish ==
    /\ pc = "loop"
    /\ data_iter_step = n
    /\ pc' = "returned"
    /\ calls' = calls \o << Call("synchronize_between_processes", epoch, n) >>
    /\ UNCHANGED <<err, epoch, n, accum_iter, log_writer, data_iter_step, lr, grad,
                   updates, dropped, meters, batch, samples, ncalls, workers>>

\* the caller invokes train_one_epoch again for the next epoch
NextEpoch ==
    /\ pc = "returned"
    /\ ncalls < MaxCalls
    /\ pc' = "call"
    /\ epoch' = epoch + 1
    /\ UNCHANGED <<err, n, accum_iter, log_writer, data_iter_step, lr, grad,
                   updates, dropped, meters, calls, batch, samples, ncalls, workers>>

Next == Enter \/ Step \/ Finish \/ NextEpoch

Spec == Init /\ [][Next]_vars

----------------------------------------------------------------------------
(* The rearrangement alone, on a larger family of batch shapes *)

Frames == {8, 12, 16, 24, 32, 48}
Channels == {1, 3, 6}

GridShapes ==
    {<<b, f, c, h, w>> : b \in 1..MaxBatch, f \in Frames, c \in Channels,
                         h \in 1..MaxSide, w \in 1..MaxSide}

InitGrid ==
    /\ pc = "batch"
    /\ err = ""
    /\ epoch = 0
    /\ n = 1
    /\ accum_iter = 1
    /\ log_writer = TRUE
    /\ data_iter_step = 0
    /\ lr = InitialLr
    /\ grad = {}
    /\ updates = <<>>
    /\ dropped = {}
    /\ meters = [loss |-> <<>>, lr |-> <<>>]
    /\ calls = <<>>
    /\ batch \in {Iota(s) : s \in GridShapes}
    /\ samples = NoTensor
    /\ ncalls = 0
    /\ workers = <<>>

\* lines 51-63 applied to one batch
Rearrange ==
    /\ pc = "batch"
    /\ LET g == GridTransform(batch)
       IN  /\ samples' = g.value
           /\ pc' = IF g.raised THEN "raised" ELSE "rearranged"
           /\ err' = IF g.raised THEN "RuntimeError" ELSE ""
    /\ UNCHANGED <<epoch, n, accum_iter, log_writer, data_iter_step, lr, grad,
                   updates, dropped, meters, calls, batch, ncalls, workers>>

NextGrid == Rearrange

SpecGrid == InitGrid /\ [][NextGrid]_vars

----------------------------------------------------------------------------
(* Data-parallel workers: every worker process runs train_one_epoch on its own
   shard with the same len(data_loader), accum_iter and epoch; only the control
   flow and the collective calls of each worker are kept *)

Worker(writer) ==
    [pc |-> "call", err |-> "", writer |-> writer, step |-> 0, logged |-> 0,
     coll |-> <<>>]

Collective(op, st) == [op |-> op, step |-> st]

\* the blocking collective a worker waits in completes once every worker has
\* issued its matching call
Entered(w) ==
    LET c == Len(workers[w].coll)
    IN  \A v \in DOMAIN workers :
           /\ Len(workers[v].coll) >= c
           /\ workers[v].coll[c].op = workers[w].coll[c].op

InitWorkers ==
    /\ pc = "workers"
    /\ err = ""
    /\ epoch = 0
    /\ n \in 1..MaxN
    /\ accum_iter \in 1..MaxAccum
    /\ log_writer = TRUE
    /\ data_iter_step = 0
    /\ lr = InitialLr
    /\ grad = {}
    /\ updates = <<>>
    /\ dropped = {}
    /\ meters = [loss |-> <<>>, lr |-> <<>>]
    /\ calls = <<>>
    /\ batch = NoTensor
    /\ samples = NoTensor
    /\ ncalls = 0
    /\ workers \in UNION {[1..nw -> {Worker(wr) : wr \in BOOLEAN}] : nw \in 2..MaxWorkers}

Shared == <<pc, err, epoch, n, accum_iter, log_writer, data_iter_step, lr, grad,
            updates, dropped, meters, calls, batch, samples, ncalls>>

\* lines 29-40 in worker w
WEnter(w) ==
    /\ workers[w].pc = "call"
    /\ workers' = [workers EXCEPT ![w].pc = "loop", ![w].step = 0]
    /\ UNCHANGED Shared

\* lines 42-96 in worker w: one iteration up to the call of all_reduce_mean
WStep(w) ==
    /\ workers[w].pc = "loop"
    /\ workers[w].step < n
    /\ \E shape \in MainShapes, out \in Losses :
        LET st == workers[w].step
            g  == GridTransform(Iota(shape))
        IN  IF g.raised
            THEN workers' = [workers EXCEPT ![w].pc = "raised",
                                            ![w].err = "RuntimeError"]
            ELSE IF ImageStep(st) /\ ~workers[w].writer
            THEN workers' = [workers EXCEPT ![w].pc = "raised",
                                            ![w].err = "AttributeError"]
            ELSE IF ~IsFinite(out)
            THEN workers' = [workers EXCEPT ![w].pc = "exited",
                                            ![w].err = "SystemExit(1)"]
            ELSE workers' = [workers EXCEPT
                               ![w].pc = "reduce",
                               ![w].coll = Append(@, Collective("all_reduce_mean", st))]
    /\ UNCHANGED Shared

\* lines 96-103 in worker w: all_reduce_mean returns, the scalars are logged
WReduced(w) ==
    /\ workers[w].pc = "reduce"
    /\ Entered(w)
    /\ workers' = [workers EXCEPT
                     ![w].pc = "loop",
                     ![w].logged = IF LogStep(workers[w].writer, workers[w].step, accum_iter)
                                   THEN @ + 2 ELSE @,
                     ![w].step = @ + 1]
    /\ UNCHANGED Shared

\* line 107 in worker w: the loop is exhausted, synchronize_between_processes is called
WFinish(w) ==
    /\ workers[w].pc = "loop"
    /\ workers[w].step = n
    /\ workers' = [workers EXCEPT
                     ![w].pc = "sync",
                     ![w].coll = Append(@, Collective("synchronize_between_processes", n))]
    /\ UNCHANGED Shared

\* lines 107-109 in worker w: the synchronization returns, the averages are returned
WReturn(w) ==
    /\ workers[w].pc = "sync"
    /\ Entered(w)
    /\ workers' = [workers EXCEPT ![w].pc = "returned"]
    /\ UNCHANGED Shared

NextWorkers ==
    \/ \E w \in DOMAIN workers : WEnter(w)
    \/ \E w \in DOMAIN workers : WStep(w)
    \/ \E w \in DOMAIN workers : WReduced(w)
    \/ \E w \in DOMAIN workers : WFinish(w)
    \/ \E w \in DOMAIN workers : WReturn(w)

SpecWorkers == InitWorkers /\ [][NextWorkers]_vars

----------------------------------------------------------------------------
(* Properties *)

Completed == {"loop", "returned", "exited", "raised"}

\* the call records of one step of one invocation
StepCalls(op, e, st) == {i \in CallsOf(op) : calls[i].epoch = e /\ calls[i].step = st}

\* C1 as stated: update_grad is true exactly on the steps with (step+1) % k = 0,
\* and every zero_grad comes immediately after an update_grad = true scaler call
C1_Original ==
    /\ \A i \in CallsOf("loss_scaler") :
          calls[i].flag <=> ((calls[i].step + 1) % accum_iter = 0)
    /\ \A i \in CallsOf("zero_grad") :
          /\ i > 1
          /\ calls[i - 1].op = "loss_scaler"
          /\ calls[i - 1].flag

\* C1 amended: every step that reaches the scaler calls it once, with update_grad
\* true exactly when (step+1) % k = 0; inside the loop zero_grad is called exactly
\* on those steps, immediately after the scaler call (one per k completed steps);
\* one more zero_grad is called at entry of each invocation, before the first step
C1_Cadence ==
    /\ \A i \in CallsOf("loss_scaler") :
          calls[i].flag <=> ((calls[i].step + 1) % accum_iter = 0)
    /\ \A i \in CallsOf("loss_scaler") :
          calls[i].flag =>
             /\ i + 1 \in DOMAIN calls
             /\ calls[i + 1].op = "zero_grad"
             /\ calls[i + 1].step = calls[i].step
    /\ \A i \in CallsOf("zero_grad") :
          \/ /\ calls[i].step = -1
             /\ calls[i - 1].op = "train"
          \/ /\ calls[i].step >= 0
             /\ calls[i - 1].op = "loss_scaler"
             /\ calls[i - 1].flag
             /\ calls[i - 1].step = calls[i].step
             /\ calls[i - 1].epoch = calls[i].epoch
    /\ Cardinality(StepCalls("zero_grad", epoch, -1)) = (IF pc = "call" THEN 0 ELSE 1)
    /\ pc \in Completed =>
          /\ \A st \in 0..(data_iter_step - 1) :
                Cardinality(StepCalls("loss_scaler", epoch, st)) = 1
          /\ Cardinality({i \in CallsOf("zero_grad") :
                             calls[i].epoch = epoch /\ calls[i].step >= 0})
               = data_iter_step \div accum_iter

\* a returned epoch of three steps with windows of two: one update, one step after it
C1_Witness ==
    /\ pc = "returned"
    /\ accum_iter = 2
    /\ n = 3
    /\ \E i \in CallsOf("loss_scaler") : calls[i].flag
    /\ \E i \in CallsOf("loss_scaler") : ~calls[i].flag

\* C2: the learning rate is recomputed exactly on the steps with step % k = 0, from
\* the fractional epoch step/len + epoch, and every step of a window (its recorded
\* and logged lr included) uses the value set at the window's first step
C2_LrBoundary ==
    /\ \A i \in CallsOf("adjust_learning_rate") :
          /\ calls[i].step % accum_iter = 0
          /\ calls[i].val = <<calls[i].step + calls[i].epoch * n, n>>
    /\ \A i \in CallsOf("model") :
          Cardinality(StepCalls("adjust_learning_rate", calls[i].epoch, calls[i].step))
             = (IF calls[i].step % accum_iter = 0 THEN 1 ELSE 0)
    /\ \A i \in CallsOf("update") \cup CallsOf("add_scalar") :
          calls[i].tag = "lr" =>
             calls[i].val = << (calls[i].step - (calls[i].step % accum_iter))
                                  + calls[i].epoch * n, n >>
    /\ (pc = "loop" /\ data_iter_step > 0) =>
          lr = << ((data_iter_step - 1) - ((data_iter_step - 1) % accum_iter))
                     + epoch * n, n >>

\* the last step of a window of three recorded and logged its learning rate
C2_Witness ==
    /\ accum_iter = 3
    /\ \E i \in CallsOf("add_scalar") : calls[i].tag = "lr" /\ calls[i].step = 2
    /\ \E i \in CallsOf("update") : calls[i].tag = "lr" /\ calls[i].step = 1

\* C3: a step whose loss is not finite ends the process with exit status 1, and
\* neither the scaler, zero_grad, a metric update nor a later batch follows it
C3_FatalPath ==
    \A i \in CallsOf("model") :
       ~IsFinite(calls[i].loss) =>
          /\ pc = "exited"
          /\ err = "SystemExit(1)"
          /\ \A j \in DOMAIN calls :
                j > i => calls[j].op \notin {"loss_scaler", "zero_grad", "update",
                                             "all_reduce_mean", "add_scalar", "model"}

\* C4: without a writer nothing raises for want of one (only a reshape error can
\* end the epoch abnormally when every loss is finite)
C4_NoWriterNoOp ==
    (~log_writer /\ \A i \in CallsOf("model") : IsFinite(calls[i].loss)) =>
        /\ err # "AttributeError"
        /\ pc = "raised" => err = "RuntimeError"

\* the position of the grid image that frame f, channel c, pixel (h, w) of sample b
\* is claimed to occupy
GridPos(b, f, c, h, w, H, W) ==
    <<b, c, (f \div GridSide) * H + h, (f % GridSide) * W + w>>

GridLayout(in, out) ==
    LET B == in.shape[1]
        C == in.shape[3]
        H == in.shape[4]
        W == in.shape[5]
    IN  /\ out.shape = <<B, C, GridSide * H, GridSide * W>>
        /\ \A b \in 0..(B - 1), f \in 0..(in.shape[2] - 1), c \in 0..(C - 1),
              h \in 0..(H - 1), w \in 0..(W - 1) :
              At(out, GridPos(b, f, c, h, w, H, W)) = At(in, <<b, f, c, h, w>>)

\* the inverse rearrangement: split rows and columns into grid and pixel indices,
\* bring the two grid indices together, merge them into frames, frames before channels
InverseGrid(out, B, C, H, W) ==
    Permute(Reshape(Permute(Reshape(out, <<B, C, GridSide, H, GridSide, W>>),
                            <<0, 1, 2, 4, 3, 5>>),
                    <<B, C, GridSide * GridSide, H, W>>),
            <<0, 2, 1, 3, 4>>)

\* C5 as stated: every batch of shape (B, 16, C, H, W) is rearranged into
\* (B, C, 4H, 4W) with frame f in tile (f div 4, f mod 4)
C5_Original ==
    (pc # "batch" /\ batch.shape[2] = 16) =>
        /\ pc = "rearranged"
        /\ GridLayout(batch, samples)

\* C5 amended: every batch of shape (B, 16, 3, S, S) (three channels, square
\* frames) is rearranged into (B, 3, 4S, 4S) with frame f in tile (f div 4, f mod 4);
\* the elements are moved one-to-one and the inverse recovers the batch
C5_GridBijection ==
    (pc # "batch" /\ batch.shape[2] = 16 /\ batch.shape[3] = 3
       /\ batch.shape[4] = batch.shape[5]) =>
        /\ pc = "rearranged"
        /\ GridLayout(batch, samples)
        /\ Len(samples.data) = Len(batch.data)
        /\ \A i, j \in DOMAIN samples.data :
              samples.data[i] = samples.data[j] => i = j
        /\ InverseGrid(samples, batch.shape[1], 3, batch.shape[4], batch.shape[5])
             = batch

\* two samples of sixteen 2x2 RGB frames were rearranged
C5_Witness ==
    /\ pc = "rearranged"
    /\ batch.shape = <<2, 16, 3, 2, 2>>
    /\ samples.shape = <<2, 3, 8, 8>>

\* C6: a batch whose frame count is not 16 fails in the rearrangement with a
\* shape error and is never handed on
C6_FramesChecked ==
    (pc # "batch" /\ batch.shape[2] # 16) =>
        /\ pc = "raised"
        /\ err = "RuntimeError"

\* C7: the scaler receives raw_loss / accum_iter, while the metric tracker and the
\* cross-worker reduction receive the raw loss returned by the model
C7_LossNormalization ==
    /\ \A i \in CallsOf("loss_scaler") :
          \E j \in StepCalls("model", calls[i].epoch, calls[i].step) :
             /\ j < i
             /\ IsFinite(calls[j].loss)
             /\ IsFinite(calls[i].loss)
             /\ calls[i].loss.num * calls[j].loss.den * accum_iter
                  = calls[j].loss.num * calls[i].loss.den
    /\ \A i \in CallsOf("update") \cup CallsOf("all_reduce_mean") :
          (calls[i].op = "update" => calls[i].tag = "loss") =>
             \E j \in StepCalls("model", calls[i].epoch, calls[i].step) :
                calls[i].loss = calls[j].loss
    /\ \A i \in CallsOf("loss_scaler") :
          /\ Cardinality({j \in StepCalls("update", calls[i].epoch, calls[i].step) :
                             calls[j].tag = "loss"}) = 1
          /\ Cardinality(StepCalls("all_reduce_mean", calls[i].epoch, calls[i].step)) = 1
    /\ pc \in Completed =>
          \A i \in DOMAIN meters.loss :
             \E j \in StepCalls("model", epoch, i - 1) : meters.loss[i] = calls[j].loss

\* a step of a window of more than one step went through the scaler and the tracker
C7_Witness ==
    /\ accum_iter >= 2
    /\ \E i \in CallsOf("loss_scaler") : calls[i].loss.den = accum_iter
    /\ \E i \in CallsOf("update") : calls[i].tag = "loss" /\ calls[i].loss = Fin(3)
    /\ Len(meters.loss) >= 1

\* Python's round: to nearest, ties to even, of the rational num/den
Round(num, den) ==
    LET q == num \div den
        r == num % den
    IN  IF 2 * r < den THEN q
        ELSE IF 2 * r > den THEN q + 1
        ELSE IF q % 2 = 0 THEN q ELSE q + 1

\* C8 as stated: every scalar is tagged with round((step/len + epoch) * 1000)
C8_Original ==
    \A i \in CallsOf("add_scalar") :
       calls[i].x = Round((calls[i].step + calls[i].epoch * n) * 1000, n)

\* C8 amended: every scalar is tagged with (step/len + epoch) * 1000 truncated to an
\* integer (not rounded), and train_loss and lr of one step carry the same tag
C8_Truncated ==
    /\ \A i \in CallsOf("add_scalar") :
          /\ calls[i].x * n <= (calls[i].step + calls[i].epoch * n) * 1000
          /\ (calls[i].step + calls[i].epoch * n) * 1000 < (calls[i].x + 1) * n
    /\ \A i, j \in CallsOf("add_scalar") :
          (calls[i].epoch = calls[j].epoch /\ calls[i].step = calls[j].step)
             => calls[i].x = calls[j].x

\* a scalar was logged at step 2 of 3, where (2/3 + epoch) * 1000 has fraction 2/3
C8_Witness ==
    /\ n = 3
    /\ \E i \in CallsOf("add_scalar") :
          /\ calls[i].step = 2
          /\ calls[i].x = 666 + 1000 * calls[i].epoch

\* C9: the x-axis values of the logged scalars never decrease, from one logged step
\* to the next and from every value of one epoch to every value of the next epoch
C9_Monotone ==
    \A i, j \in CallsOf("add_scalar") :
       /\ i < j => calls[i].x <= calls[j].x
       /\ calls[i].epoch < calls[j].epoch => calls[i].x <= calls[j].x

\* scalars were logged at two steps of one epoch and at a step of the next epoch
C9_Witness ==
    \E i, j, m \in CallsOf("add_scalar") :
       /\ calls[i].epoch = calls[j].epoch
       /\ calls[i].step < calls[j].step
       /\ calls[m].epoch = calls[i].epoch + 1

\* C10: when the epoch returns no gradient is pending and every processed step was
\* consumed by exactly one optimizer update
C10_NoPending ==
    pc = "returned" =>
        /\ grad = {}
        /\ \A st \in 0..(n - 1) :
              Cardinality({i \in DOMAIN updates : <<epoch, st>> \in updates[i]}) = 1

\* C11: on a step whose loss is not finite the process aborts without a
\* reconstruction image having been emitted for that step
C11_CheckBeforeImage ==
    \A i \in CallsOf("model") :
       ~IsFinite(calls[i].loss) =>
          StepCalls("add_image", calls[i].epoch, calls[i].step) = {}

\* C12: train_loss and lr scalars are emitted once each on exactly the steps that
\* ran with a writer attached and (step+1) % k = 0, the steps on which update_grad
\* is true, and on no other step
C12_ScalarCadence ==
    /\ \A i \in CallsOf("add_scalar") :
          /\ log_writer
          /\ (calls[i].step + 1) % accum_iter = 0
          /\ calls[i].tag \in {"train_loss", "lr"}
          /\ \E j \in StepCalls("loss_scaler", calls[i].epoch, calls[i].step) :
                j < i /\ calls[j].flag
    /\ \A i \in CallsOf("loss_scaler") :
          \A tag \in {"train_loss", "lr"} :
             Cardinality({j \in StepCalls("add_scalar", calls[i].epoch, calls[i].step) :
                             calls[j].tag = tag})
               = (IF log_writer /\ (calls[i].step + 1) % accum_iter = 0 THEN 1 ELSE 0)

\* with windows of two, step 0 went by without scalars and step 1 logged both
C12_Witness ==
    /\ accum_iter = 2
    /\ log_writer
    /\ StepCalls("loss_scaler", epoch, 0) # {}
    /\ StepCalls("add_scalar", epoch, 0) = {}
    /\ Cardinality(StepCalls("add_scalar", epoch, 1)) = 2

IsPrefix(a, b) == Len(a) <= Len(b) /\ SubSeq(b, 1, Len(a)) = a

\* a worker waits in a collective that a terminated worker will never join
Blocked(w) ==
    /\ workers[w].pc \in {"reduce", "sync"}
    /\ \E v \in DOMAIN workers :
          /\ workers[v].pc \in {"raised", "exited", "returned"}
          /\ Len(workers[v].coll) < Len(workers[w].coll)

\* C13: workers with equal batch counts and finite losses, with or without a
\* writer, issue the same sequence of collective calls (one reduction per step
\* that passed the health check, one synchronization at the end) and no worker
\* is left blocked in a collective
C13_Lockstep ==
    (\A w \in DOMAIN workers : workers[w].err \notin {"SystemExit(1)", "RuntimeError"}) =>
        /\ \A w, v \in DOMAIN workers :
              IsPrefix(workers[w].coll, workers[v].coll)
                 \/ IsPrefix(workers[v].coll, workers[w].coll)
        /\ \A w \in DOMAIN workers :
              /\ workers[w].pc = "loop" =>
                    workers[w].coll = [i \in 1..workers[w].step |->
                                          Collective("all_reduce_mean", i - 1)]
              /\ ~Blocked(w)

====
